---- MODULE Spec2Model ----
(***************************************************************************)
(* flist: FileVersion (parse, order, equality, display), version filtering *)
(* and the run of main.                                                    *)
(*                                                                         *)
(* Strings are sequences of one-character strings.  Option<T> is the empty *)
(* sequence (None) or a one-element sequence (Some).                       *)
(***************************************************************************)
EXTENDS Integers, Sequences, FiniteSets, TLC

VARIABLES
    pc,            \* position of the run / of the operation under study
    lhs, rhs,      \* the two FileVersion operands of cmp and ==
    ord_res,       \* Option<Ordering> returned by lhs.cmp(&rhs)
    eq_res,        \* Option<bool> returned by lhs == rhs
    input,         \* the &str given to FileVersion::from_str
    parsed,        \* Option<Result<FileVersion, Error>> returned by from_str
    text,          \* Option<String> produced by Display::fmt
    flt_files,     \* Vec<FileInfo> given to filter_by_version
    min_bound,     \* Option<FileVersion> min_version of filter_by_version
    max_bound,     \* Option<FileVersion> max_version of filter_by_version
    filtered,      \* Option<Vec<FileInfo>> returned by filter_by_version
    args,          \* CliArgs of the run
    fs,            \* the directory tree: files in walk order, each with the
                   \* version its bytes yield
    files,         \* main's local files : Vec<PathBuf>
    min_version,   \* main's local min_version : Option<FileVersion>
    max_version,   \* main's local max_version : Option<FileVersion>
    file_infos,    \* main's local file_infos : Vec<FileInfo>
    stdout,        \* lines printed to the console so far
    out_file,      \* Option<lines> content of the output file
    scanned,       \* TRUE once enumerate_files has been called
    exit,          \* Option<Result<(), Error>> returned by main
    reads,         \* the paths read_file_version has been called on, in order
    image,         \* the file given to read_file_version: what opening it,
                   \* reading it as a PE image and looking up its version
                   \* resource yield
    host,          \* byte order of the machine the program runs on
    tried,         \* the PE interpretations read_file_version has tried
    file_ver_raw,  \* Option<u64> file_ver_raw of the extraction, as four
                   \* 16-bit words, least significant first
    read_res,      \* Option<Result<Option<FileVersion>, Error>> returned by
                   \* read_file_version
    srt_files,     \* Vec<FileInfo> given to sort_by_path
    srt_result     \* Option<Vec<FileInfo>> returned by sort_by_path

versionVars == <<lhs, rhs, ord_res, eq_res>>
parseVars   == <<input, parsed, text>>
filterVars  == <<flt_files, min_bound, max_bound, filtered>>
mainVars    == <<args, fs, files, min_version, max_version, file_infos,
                 stdout, out_file, scanned, exit, reads>>
readVars    == <<image, host, tried, file_ver_raw, read_res>>
sortVars    == <<srt_files, srt_result>>
vars == <<pc, versionVars, parseVars, filterVars, mainVars, readVars,
          sortVars>>

----------------------------------------------------------------------------
(* Bounds *)

MaxField == 1      \* field values of the operands of cmp: 0..MaxField
MaxParts == 5      \* dot-separated components of a parsed string
MaxFiles == 3      \* length of the file list given to filter_by_version
MaxTree  == 2      \* number of files in the directory tree of a run

----------------------------------------------------------------------------
(* Option, Result, Ordering *)

None == <<>>
Some(x) == <<x>>
IsSome(o) == Len(o) = 1
IsNone(o) == Len(o) = 0
Unwrap(o) == o[1]

Ok(v) == [ok |-> TRUE, val |-> v]
Err(e) == [ok |-> FALSE, err |-> e]

\* A u32 is held as two 16-bit limbs, value = hi * LimbBase + lo, so that
\* every intermediate number stays small.
LimbBase == 65536

U32(n) == [hi |-> n \div LimbBase, lo |-> n % LimbBase]
U32Max == [hi |-> LimbBase - 1, lo |-> LimbBase - 1]      \* 4294967295

\* u32::cmp
U32Cmp(x, y) ==
    IF x.hi < y.hi THEN "Less"
    ELSE IF x.hi > y.hi THEN "Greater"
    ELSE IF x.lo < y.lo THEN "Less"
    ELSE IF x.lo > y.lo THEN "Greater"
    ELSE "Equal"

\* u32::checked_mul(10) and u32::checked_add(d), d a digit: None on overflow
checked_mul10(x) ==
    LET lo10 == x.lo * 10
        hi10 == x.hi * 10 + (lo10 \div LimbBase)
    IN IF hi10 >= LimbBase THEN None
       ELSE Some([hi |-> hi10, lo |-> lo10 % LimbBase])

checked_add(x, d) ==
    LET lo == x.lo + d
        hi == x.hi + (lo \div LimbBase)
    IN IF hi >= LimbBase THEN None
       ELSE Some([hi |-> hi, lo |-> lo % LimbBase])

\* x / 10 and x % 10
Div10(x) ==
    LET t == (x.hi % 10) * LimbBase + x.lo
    IN [hi |-> x.hi \div 10, lo |-> t \div 10]
Rem10(x) == ((x.hi % 10) * LimbBase + x.lo) % 10

OptionCmp_absent_is_zero(x, y) ==
    U32Cmp(IF IsSome(x) THEN Unwrap(x) ELSE U32(0),
           IF IsSome(y) THEN Unwrap(y) ELSE U32(0))

\* Option<u32>::cmp: None sorts before every Some, Some by value.
OptionCmp(x, y) ==
    CASE IsNone(x) /\ IsNone(y) -> "Equal"
      [] IsNone(x) /\ IsSome(y) -> "Less"
      [] IsSome(x) /\ IsNone(y) -> "Greater"
      [] OTHER -> U32Cmp(Unwrap(x), Unwrap(y))

\* Option<u32>::eq
OptionEq_absent_is_zero(x, y) ==
    (IF IsSome(x) THEN Unwrap(x) ELSE U32(0))
        = (IF IsSome(y) THEN Unwrap(y) ELSE U32(0))

OptionEq(x, y) ==
    CASE IsNone(x) /\ IsNone(y) -> TRUE
      [] IsSome(x) /\ IsSome(y) -> Unwrap(x) = Unwrap(y)
      [] OTHER -> FALSE

----------------------------------------------------------------------------
(* FileVersion *)

new(major, minor, build, private) ==
    [major |-> major, minor |-> minor, build |-> build, private |-> private]

\* #[derive(PartialEq, Eq)]
eq(self, other) ==
    /\ OptionEq(self.major, other.major)
    /\ OptionEq(self.minor, other.minor)
    /\ OptionEq(self.build, other.build)
    /\ OptionEq(self.private, other.private)

cmp_minor_first(self, other) ==
    IF OptionCmp(self.minor, other.minor) # "Equal"
    THEN OptionCmp(self.minor, other.minor)
    ELSE IF OptionCmp(self.major, other.major) # "Equal"
    THEN OptionCmp(self.major, other.major)
    ELSE IF OptionCmp(self.build, other.build) # "Equal"
    THEN OptionCmp(self.build, other.build)
    ELSE OptionCmp(self.private, other.private)

\* impl Ord for FileVersion
cmp(self, other) ==
    IF OptionCmp(self.major, other.major) # "Equal"
    THEN OptionCmp(self.major, other.major)
    ELSE IF OptionCmp(self.minor, other.minor) # "Equal"
    THEN OptionCmp(self.minor, other.minor)
    ELSE IF OptionCmp(self.build, other.build) # "Equal"
    THEN OptionCmp(self.build, other.build)
    ELSE OptionCmp(self.private, other.private)

\* impl PartialOrd for FileVersion, and the operators it provides
partial_cmp(self, other) == Some(cmp(self, other))
lt(a, b) == partial_cmp(a, b) = Some("Less")
le(a, b) == partial_cmp(a, b) \in {Some("Less"), Some("Equal")}
gt(a, b) == partial_cmp(a, b) = Some("Greater")
ge(a, b) == partial_cmp(a, b) \in {Some("Greater"), Some("Equal")}

----------------------------------------------------------------------------
(* Characters and u32 text conversion *)

DigitChars == <<"0", "1", "2", "3", "4", "5", "6", "7", "8", "9">>

\* char::to_digit(10): Some(d) for a decimal digit, None otherwise
to_digit(c) ==
    IF \E d \in 1..10 : DigitChars[d] = c
    THEN Some((CHOOSE d \in 1..10 : DigitChars[d] = c) - 1)
    ELSE None

RECURSIVE ParseDigits_wrapping(_, _)
ParseDigits_wrapping(digits, acc) ==
    IF digits = <<>> THEN Ok(acc)
    ELSE LET d == to_digit(Head(digits)) IN
         IF IsNone(d) THEN Err("InvalidDigit")
         ELSE LET lo == acc.lo * 10 + Unwrap(d)
                  hi == acc.hi * 10 + (lo \div LimbBase)
              IN ParseDigits_wrapping(Tail(digits),
                     [hi |-> hi % LimbBase, lo |-> lo % LimbBase])

\* The accumulation loop of u32::from_str_radix(_, 10): every character must
\* be a digit, the multiplication and the addition are checked.
RECURSIVE ParseDigits(_, _)
ParseDigits(digits, acc) ==
    IF digits = <<>> THEN Ok(acc)
    ELSE LET d == to_digit(Head(digits)) IN
         IF IsNone(d) THEN Err("InvalidDigit")
         ELSE LET m == checked_mul10(acc) IN
              IF IsNone(m) THEN Err("PosOverflow")
              ELSE LET a == checked_add(Unwrap(m), Unwrap(d)) IN
                   IF IsNone(a) THEN Err("PosOverflow")
                   ELSE ParseDigits(Tail(digits), Unwrap(a))

\* str::parse::<u32>(): an optional leading '+', then one or more digits;
\* a '-' is not accepted for an unsigned type.
ParseU32(src) ==
    IF src = <<>> THEN Err("Empty")
    ELSE IF src = <<"+">> \/ src = <<"-">> THEN Err("InvalidDigit")
    ELSE IF Head(src) = "+" THEN ParseDigits(Tail(src), U32(0))
    ELSE ParseDigits(src, U32(0))

RECURSIVE ToDecimal_reversed(_)
ToDecimal_reversed(n) ==
    IF n.hi = 0 /\ n.lo < 10 THEN <<DigitChars[n.lo + 1]>>
    ELSE <<DigitChars[Rem10(n) + 1]>> \o ToDecimal_reversed(Div10(n))

\* Display of a u32: its decimal digits, most significant first
RECURSIVE ToDecimal(_)
ToDecimal(n) ==
    IF n.hi = 0 /\ n.lo < 10 THEN <<DigitChars[n.lo + 1]>>
    ELSE ToDecimal(Div10(n)) \o <<DigitChars[Rem10(n) + 1]>>

RECURSIVE Split_skip_empty(_)
Split_skip_empty(s) ==
    IF \A i \in 1..Len(s) : s[i] # "."
    THEN IF s = <<>> THEN <<>> ELSE <<s>>
    ELSE LET i == CHOOSE k \in 1..Len(s) :
                      s[k] = "." /\ \A j \in 1..(k - 1) : s[j] # "."
         IN (IF i = 1 THEN <<>> ELSE <<SubSeq(s, 1, i - 1)>>)
            \o Split_skip_empty(SubSeq(s, i + 1, Len(s)))

\* s.split('.').collect(): the pieces between the dots, empty pieces kept;
\* the empty string gives one empty piece.
RECURSIVE Split(_)
Split(s) ==
    IF \A i \in 1..Len(s) : s[i] # "."
    THEN <<s>>
    ELSE LET i == CHOOSE k \in 1..Len(s) :
                      s[k] = "." /\ \A j \in 1..(k - 1) : s[j] # "."
         IN <<SubSeq(s, 1, i - 1)>> \o Split(SubSeq(s, i + 1, Len(s)))

----------------------------------------------------------------------------
(* FromStr and Display for FileVersion *)

from_str_checks_all(s) ==
    LET parts == Split(s)
        some(r) == IF r.ok THEN Ok(Some(r.val)) ELSE r
        piece(i) == IF Len(parts) >= i /\ parts[i] # <<>>
                    THEN some(ParseU32(parts[i])) ELSE Ok(None)
        bad == {i \in 1..Len(parts) : ~piece(i).ok}
    IN IF bad # {}
       THEN piece(CHOOSE i \in bad : \A j \in bad : i <= j)
       ELSE Ok(new(piece(1).val, piece(2).val, piece(3).val, piece(4).val))

\* impl FromStr for FileVersion: each of the first four pieces is parsed when
\* it exists and is not empty (Some(piece.parse::<u32>()?)); the first parse
\* error returns from the function.
from_str(s) ==
    LET parts == Split(s)
        some(r) == IF r.ok THEN Ok(Some(r.val)) ELSE r
        major == IF Len(parts) # 0 /\ parts[1] # <<>>
                 THEN some(ParseU32(parts[1])) ELSE Ok(None)
        minor == IF Len(parts) > 1 /\ parts[2] # <<>>
                 THEN some(ParseU32(parts[2])) ELSE Ok(None)
        build == IF Len(parts) > 2 /\ parts[3] # <<>>
                 THEN some(ParseU32(parts[3])) ELSE Ok(None)
        private == IF Len(parts) > 3 /\ parts[4] # <<>>
                   THEN some(ParseU32(parts[4])) ELSE Ok(None)
    IN IF ~major.ok THEN major
       ELSE IF ~minor.ok THEN minor
       ELSE IF ~build.ok THEN build
       ELSE IF ~private.ok THEN private
       ELSE Ok(new(major.val, minor.val, build.val, private.val))

fmt_present_only(self) ==
    LET piece(o) == IF IsSome(o) THEN ToDecimal(Unwrap(o)) ELSE <<>>
    IN piece(self.major) \o <<".">> \o piece(self.minor) \o <<".">>
       \o piece(self.build) \o <<".">> \o piece(self.private)

\* impl Display for FileVersion: "{}.{}.{}.{}" with map_or(0, ..) per field
fmt(self) ==
    LET major == IF IsSome(self.major) THEN Unwrap(self.major) ELSE U32(0)
        minor == IF IsSome(self.minor) THEN Unwrap(self.minor) ELSE U32(0)
        build == IF IsSome(self.build) THEN Unwrap(self.build) ELSE U32(0)
        private == IF IsSome(self.private) THEN Unwrap(self.private) ELSE U32(0)
    IN ToDecimal(major) \o <<".">> \o ToDecimal(minor) \o <<".">>
       \o ToDecimal(build) \o <<".">> \o ToDecimal(private)

----------------------------------------------------------------------------
(* file_lister: FileInfo, collect_file_info, filter_by_version, sort_by_path *)

FileInfo(path, version) == [path |-> path, version |-> version]

\* read_file_version(path).ok().flatten(): the version the bytes of the file
\* at path yield in the tree, None when they yield none
read_file_version(tree, path) ==
    LET i == CHOOSE k \in 1..Len(tree) : tree[k].path = path
    IN tree[i].version

\* The calls of read_file_version that collect_file_info makes
collect_reads(paths, include_version) ==
    IF include_version THEN paths ELSE <<>>

collect_file_info_stops_at_failure(tree, paths, include_version) ==
    LET failed == {i \in 1..Len(paths) :
                      include_version
                      /\ IsNone(read_file_version(tree, paths[i]))}
        n == IF failed = {} THEN Len(paths)
             ELSE (CHOOSE i \in failed : \A j \in failed : i <= j) - 1
    IN [i \in 1..n |->
           FileInfo(paths[i],
                    IF include_version THEN read_file_version(tree, paths[i])
                    ELSE None)]

\* collect_file_info: one FileInfo per path, the version read only when asked
collect_file_info(tree, paths, include_version) ==
    [i \in 1..Len(paths) |->
        FileInfo(paths[i],
                 IF include_version THEN read_file_version(tree, paths[i])
                 ELSE None)]

filter_by_version_exclusive(fl, minv, maxv) ==
    LET keep(file_info) ==
            IF IsSome(file_info.version)
            THEN LET version == Unwrap(file_info.version)
                     min_ok == IsNone(minv) \/ gt(version, Unwrap(minv))
                     max_ok == IsNone(maxv) \/ lt(version, Unwrap(maxv))
                 IN min_ok /\ max_ok
            ELSE FALSE
    IN SelectSeq(fl, keep)

\* filter_by_version: keeps, in order, the files that have a version with
\* version >= min (when given) and version <= max (when given)
filter_by_version(fl, minv, maxv) ==
    LET keep(file_info) ==
            IF IsSome(file_info.version)
            THEN LET version == Unwrap(file_info.version)
                     min_ok == IsNone(minv) \/ ge(version, Unwrap(minv))
                     max_ok == IsNone(maxv) \/ le(version, Unwrap(maxv))
                 IN min_ok /\ max_ok
            ELSE FALSE
    IN SelectSeq(fl, keep)

\* A path is held as its rank in the PathBuf order
PathCmp(p, q) == IF p < q THEN "Less" ELSE IF p = q THEN "Equal" ELSE "Greater"

\* files.sort_by(|a, b| a.path.cmp(&b.path)): a stable sort
RECURSIVE InsertByPath(_, _)
InsertByPath(x, sorted) ==
    IF sorted = <<>> THEN <<x>>
    ELSE IF PathCmp(Head(sorted).path, x.path) = "Less"
         THEN <<Head(sorted)>> \o InsertByPath(x, Tail(sorted))
         ELSE <<x>> \o sorted

RECURSIVE sort_by_path(_)
sort_by_path(fl) ==
    IF fl = <<>> THEN <<>>
    ELSE InsertByPath(Head(fl), sort_by_path(Tail(fl)))

----------------------------------------------------------------------------
(* output: print_results, write_to_file *)

FieldWidth == 15

\* "{:<15}": left-aligned, filled with blanks up to the width
PadRight(chars, width) ==
    chars \o [i \in 1..(IF Len(chars) < width THEN width - Len(chars) ELSE 0)
                 |-> " "]

Line(kind, field, path, n) ==
    [kind |-> kind, field |-> field, path |-> path, n |-> n]
TextLine(t) == Line(t, None, 0, 0)
FoundLine(n) == Line("Found N files.", None, 0, n)

\* One result line: "{:<15} {}" of the version (or of "") and the path when
\* versions are shown, the path alone otherwise
ResultLine(file_info, include_version) ==
    IF include_version
    THEN IF IsSome(file_info.version)
         THEN Line("file",
                   Some(PadRight(fmt(Unwrap(file_info.version)), FieldWidth)),
                   file_info.path, 0)
         ELSE Line("file", Some(PadRight(<<>>, FieldWidth)),
                   file_info.path, 0)
    ELSE Line("file", None, file_info.path, 0)

ResultLines(fl, include_version) ==
    [i \in 1..Len(fl) |-> ResultLine(fl[i], include_version)]

print_results_versioned_only(fl, include_version, quiet) ==
    LET shown == SelectSeq(fl, LAMBDA f : ~include_version \/ IsSome(f.version))
    IN IF quiet THEN ResultLines(shown, include_version)
       ELSE <<FoundLine(Len(fl)), TextLine("")>>
            \o ResultLines(shown, include_version)
            \o <<TextLine(""), FoundLine(Len(fl))>>

\* print_results: the lines it prints
print_results(fl, include_version, quiet) ==
    IF quiet THEN ResultLines(fl, include_version)
    ELSE <<FoundLine(Len(fl)), TextLine("")>>
         \o ResultLines(fl, include_version)
         \o <<TextLine(""), FoundLine(Len(fl))>>

\* write_to_file: the lines it writes
write_to_file(fl, include_version) == ResultLines(fl, include_version)

----------------------------------------------------------------------------
(* cli: CliArgs *)

normalize_min_only(a) ==
    IF IsSome(a.min_version)
    THEN [a EXCEPT !.include_file_version = TRUE]
    ELSE a

\* CliArgs::normalize: a version filter implies version extraction
normalize(a) ==
    IF IsSome(a.min_version) \/ IsSome(a.max_version)
    THEN [a EXCEPT !.include_file_version = TRUE]
    ELSE a

----------------------------------------------------------------------------
(* Values the variables of an operation hold while another one is studied *)

VersionIdle == lhs = None /\ rhs = None /\ ord_res = None /\ eq_res = None
ParseIdle   == input = <<>> /\ parsed = None /\ text = None
FilterIdle  == flt_files = <<>> /\ min_bound = None /\ max_bound = None
               /\ filtered = None
MainIdle    == /\ args = None /\ fs = <<>> /\ files = <<>>
               /\ min_version = None /\ max_version = None
               /\ file_infos = <<>> /\ stdout = <<>> /\ out_file = None
               /\ scanned = FALSE /\ exit = None /\ reads = <<>>
ReadIdle    == /\ image = None /\ host = "little" /\ tried = <<>>
               /\ file_ver_raw = None /\ read_res = None
SortIdle    == srt_files = <<>> /\ srt_result = None

----------------------------------------------------------------------------
(* SpecVersion: cmp and == applied to two FileVersion values *)

FieldValues == {U32(k) : k \in 0..MaxField}
OptFields == {None} \cup {Some(x) : x \in FieldValues}
Versions == {new(a, b, c, d) : a \in OptFields, b \in OptFields,
                               c \in OptFields, d \in OptFields}

InitVersion ==
    /\ pc = "cmp"
    /\ lhs \in Versions /\ rhs \in Versions
    /\ ord_res = None /\ eq_res = None
    /\ ParseIdle /\ FilterIdle /\ MainIdle /\ ReadIdle /\ SortIdle

Compare ==
    /\ pc = "cmp"
    /\ ord_res' = Some(cmp(lhs, rhs))
    /\ pc' = "eq"
    /\ UNCHANGED <<lhs, rhs, eq_res, parseVars, filterVars, mainVars, readVars, sortVars>>

TestEq ==
    /\ pc = "eq"
    /\ eq_res' = Some(eq(lhs, rhs))
    /\ pc' = "done"
    /\ UNCHANGED <<lhs, rhs, ord_res, parseVars, filterVars, mainVars, readVars, sortVars>>

NextVersion == Compare \/ TestEq

SpecVersion == InitVersion /\ [][NextVersion]_vars

----------------------------------------------------------------------------
(* SpecParse: from_str applied to a string, Display applied to the result *)

Components ==
    { <<>>, <<"0">>, <<"1", "2">>, <<"0", "0", "7">>, <<"+", "1">>,
      <<"-", "1">>,
      <<"4", "2", "9", "4", "9", "6", "7", "2", "9", "5">>,
      <<"4", "2", "9", "4", "9", "6", "7", "2", "9", "6">> }

RECURSIVE Join(_)
Join(cs) ==
    IF Len(cs) = 1 THEN cs[1]
    ELSE cs[1] \o <<".">> \o Join(Tail(cs))

\* Components past the fourth
ExtraComponents == { <<"9">>, <<"x">> }

FirstParts == IF MaxParts < 4 THEN MaxParts ELSE 4

Inputs ==
    {Join(cs) : cs \in UNION {[1..n -> Components] : n \in 1..FirstParts}}
    \cup {Join(h \o t) :
             h \in [1..4 -> Components],
             t \in UNION {[1..m -> ExtraComponents] : m \in 1..(MaxParts - 4)}}

InitParse ==
    /\ pc = "from_str"
    /\ input \in Inputs
    /\ parsed = None /\ text = None
    /\ VersionIdle /\ FilterIdle /\ MainIdle /\ ReadIdle /\ SortIdle

Parse ==
    /\ pc = "from_str"
    /\ parsed' = Some(from_str(input))
    /\ pc' = IF from_str(input).ok THEN "fmt" ELSE "done"
    /\ UNCHANGED <<input, text, versionVars, filterVars, mainVars, readVars, sortVars>>

Format ==
    /\ pc = "fmt"
    /\ text' = Some(fmt(Unwrap(parsed).val))
    /\ pc' = "done"
    /\ UNCHANGED <<input, parsed, versionVars, filterVars, mainVars, readVars, sortVars>>

NextParse == Parse \/ Format

SpecParse == InitParse /\ [][NextParse]_vars

----------------------------------------------------------------------------
(* Vocabulary of the properties *)

FieldsOf(v) == <<v.major, v.minor, v.build, v.private>>
AllPresent(v) == \A i \in 1..4 : IsSome(FieldsOf(v)[i])
OrZero(o) == IF IsSome(o) THEN Unwrap(o) ELSE U32(0)
ZeroFilled(v) == new(Some(OrZero(v.major)), Some(OrZero(v.minor)),
                     Some(OrZero(v.build)), Some(OrZero(v.private)))
\* (major, minor, build, private) as numbers, an absent field counted as 0
QuadOf(v) == <<OrZero(v.major), OrZero(v.minor), OrZero(v.build),
               OrZero(v.private)>>

\* x < y as numbers
Smaller(x, y) == x.hi < y.hi \/ (x.hi = y.hi /\ x.lo < y.lo)

\* Lexicographic comparison of two quadruples of numbers
LexCmp(p, q) ==
    IF \A i \in 1..4 : p[i] = q[i] THEN "Equal"
    ELSE LET i == CHOOSE k \in 1..4 :
                      p[k] # q[k] /\ \A j \in 1..(k - 1) : p[j] = q[j]
         IN IF Smaller(p[i], q[i]) THEN "Less" ELSE "Greater"

V4(a, b, c, d) == new(Some(U32(a)), Some(U32(b)), Some(U32(c)), Some(U32(d)))

DigitSet == {DigitChars[k] : k \in 1..10}
DigitIndex(c) == (CHOOSE k \in 1..10 : DigitChars[k] = c) - 1
Front(s) == SubSeq(s, 1, Len(s) - 1)
Last(s) == s[Len(s)]

IsDigitString(c) == c # <<>> /\ \A i \in 1..Len(c) : c[i] \in DigitSet

RECURSIVE StripZeros(_)
StripZeros(d) ==
    IF Len(d) > 1 /\ d[1] = "0" THEN StripZeros(Tail(d)) ELSE d

U32MaxDigits == <<"4", "2", "9", "4", "9", "6", "7", "2", "9", "5">>

\* d <= e for digit strings of the same length
DigitsLeq(d, e) ==
    \/ d = e
    \/ \E i \in 1..Len(d) :
          /\ \A j \in 1..(i - 1) : d[j] = e[j]
          /\ DigitIndex(d[i]) < DigitIndex(e[i])

\* A digit string whose value is in 0..4294967295
InU32Range(d) ==
    LET t == StripZeros(d)
    IN Len(t) < 10 \/ (Len(t) = 10 /\ DigitsLeq(t, U32MaxDigits))

\* A component that is a non-negative integer in 32-bit range: decimal
\* digits, optionally preceded by a plus sign
Unsigned(c) == IF c # <<>> /\ c[1] = "+" THEN Tail(c) ELSE c
IsU32Numeral(c) == IsDigitString(Unsigned(c)) /\ InU32Range(Unsigned(c))

\* The same written with digits only
IsU32Digits(c) == IsDigitString(c) /\ InU32Range(c)

\* ... and without superfluous leading zeros
IsCanonical(c) == IsU32Digits(c) /\ StripZeros(c) = c

\* The number a digit string denotes (least significant digit last)
RECURSIVE ValueOf(_)
ValueOf(d) ==
    IF d = <<>> THEN U32(0)
    ELSE LET f == ValueOf(Front(d))
             lo == f.lo * 10 + DigitIndex(Last(d))
         IN [hi |-> f.hi * 10 + (lo \div LimbBase), lo |-> lo % LimbBase]

Min(a, b) == IF a < b THEN a ELSE b

----------------------------------------------------------------------------
(* Properties of the ordering and of equality (SpecVersion) *)

\* C1: cmp(a, b) is the lexicographic comparison of (major, minor, build,
\* private) after every absent field is replaced by 0; a version with an
\* absent field compares Equal to the same version with that field 0.
C1_OrderAbsentAsZero ==
    pc # "cmp" =>
        Unwrap(ord_res) = LexCmp(QuadOf(lhs), QuadOf(rhs))

\* C2: for versions with all four fields present, a < b exactly when a is
\* smaller at the first position, in the order major, minor, build, private,
\* where they differ; a <= a for every a; and
\* 1.0.0.0 < 1.0.0.1 < 1.0.1.0 < 1.1.0.0 < 2.0.0.0.
C2_FullVersionOrder ==
    /\ (pc # "cmp" /\ AllPresent(lhs) /\ AllPresent(rhs)) =>
         LET p == QuadOf(lhs)
             q == QuadOf(rhs)
         IN /\ (Unwrap(ord_res) = "Less") <=>
                  \E i \in 1..4 : /\ \A j \in 1..(i - 1) : p[j] = q[j]
                                  /\ Smaller(p[i], q[i])
            /\ lt(lhs, rhs) <=> (Unwrap(ord_res) = "Less")
    /\ (pc # "cmp" /\ lhs = rhs) => Unwrap(ord_res) = "Equal"
    /\ le(lhs, lhs) /\ le(rhs, rhs)
    /\ lt(V4(1, 0, 0, 0), V4(1, 0, 0, 1)) /\ lt(V4(1, 0, 0, 1), V4(1, 0, 1, 0))
    /\ lt(V4(1, 0, 1, 0), V4(1, 1, 0, 0)) /\ lt(V4(1, 1, 0, 0), V4(2, 0, 0, 0))
    /\ lt(V4(1, 65535, 9, 9), V4(1, 65536, 0, 0))
    /\ lt(V4(1, 65536, 0, 0), new(Some(U32(1)), Some(U32Max), Some(U32(0)),
                                  Some(U32(0))))

\* A comparison decided by minor against the direction of build and private
C2_Witness ==
    /\ pc = "done" /\ AllPresent(lhs) /\ AllPresent(rhs)
    /\ lhs.major = rhs.major
    /\ Smaller(Unwrap(lhs.minor), Unwrap(rhs.minor))
    /\ Smaller(Unwrap(rhs.build), Unwrap(lhs.build))
    /\ Smaller(Unwrap(rhs.private), Unwrap(lhs.private))
    /\ ord_res = Some("Less")

\* C3: a == b exactly when each field is absent in both or present with the
\* same value in both; an absent field never equals a present 0:
\* parse("1.2") == Version{1, 2, absent, absent} and parse("1.2") != parse("1.2.0.0").
C3_StructuralEquality ==
    /\ pc = "done" =>
         (Unwrap(eq_res) <=>
            \A i \in 1..4 :
               LET x == FieldsOf(lhs)[i]
                   y == FieldsOf(rhs)[i]
               IN \/ IsNone(x) /\ IsNone(y)
                  \/ /\ IsSome(x) /\ IsSome(y)
                     /\ Unwrap(x).hi = Unwrap(y).hi
                     /\ Unwrap(x).lo = Unwrap(y).lo)
    /\ from_str(<<"1", ".", "2">>).ok
    /\ from_str(<<"1", ".", "2", ".", "0", ".", "0">>).ok
    /\ eq(from_str(<<"1", ".", "2">>).val,
          new(Some(U32(1)), Some(U32(2)), None, None))
    /\ ~eq(from_str(<<"1", ".", "2">>).val,
           from_str(<<"1", ".", "2", ".", "0", ".", "0">>).val)

\* Two versions that differ only in build: absent against present 0
C3_Witness ==
    /\ pc = "done"
    /\ lhs.build = None /\ rhs.build = Some(U32(0))
    /\ lhs.major = rhs.major /\ lhs.minor = rhs.minor
    /\ lhs.private = rhs.private
    /\ eq_res = Some(FALSE)

----------------------------------------------------------------------------
(* Properties of parsing and display (SpecParse) *)

FourOf(s, P(_)) ==
    Len(Split(s)) = 4 /\ \A i \in 1..4 : P(Split(s)[i])

\* C4 as stated: for every string of exactly four dot-separated non-negative
\* integers in 32-bit range, parse succeeds and format(parse(s)) is s.
C4_RoundTripAnyDigits ==
    (pc = "done" /\ FourOf(input, IsU32Digits)) =>
        Unwrap(parsed).ok /\ text = Some(input)

\* C4 amended: for every string of exactly four dot-separated non-negative
\* integers in 32-bit range, each written in decimal digits without a sign
\* and without superfluous leading zeros, parse succeeds and
\* format(parse(s)) is s.
C4_RoundTripCanonical ==
    (pc = "done" /\ FourOf(input, IsCanonical)) =>
        Unwrap(parsed).ok /\ text = Some(input)

\* A canonical string with a multi-digit and a largest component, formatted
C4_Witness ==
    /\ pc = "done" /\ FourOf(input, IsCanonical)
    /\ Split(input)[1] = <<"1", "2">>
    /\ Split(input)[4] = U32MaxDigits
    /\ text = Some(input)

\* C5: parsing fails exactly when one of the first four components is not
\* empty and is not a non-negative integer in 32-bit range ("abc", a negative
\* number and 4294967296 fail); a failure carries an error and no version.
C5_ParseFailsExactlyOnBadComponent ==
    /\ pc # "from_str" =>
         LET r == Unwrap(parsed)
             parts == Split(input)
         IN /\ ~r.ok <=> \E i \in 1..Min(4, Len(parts)) :
                            parts[i] # <<>> /\ ~IsU32Numeral(parts[i])
            /\ ~r.ok => DOMAIN r = {"ok", "err"} /\ text = None
    /\ ~from_str(<<"a", "b", "c">>).ok
    /\ ~from_str(<<"-", "1">>).ok
    /\ ~from_str(<<"4", "2", "9", "4", "9", "6", "7", "2", "9", "6">>).ok
    /\ from_str(U32MaxDigits).ok

\* Three good components and a fourth one that overflows
C5_Witness ==
    /\ pc = "done"
    /\ Len(Split(input)) >= 4
    /\ \A i \in 1..3 : IsU32Numeral(Split(input)[i])
    /\ Split(input)[4] = <<"4", "2", "9", "4", "9", "6", "7", "2", "9", "6">>
    /\ ~Unwrap(parsed).ok /\ Unwrap(parsed).err = "PosOverflow"

\* C6: for a string that parses, field i is absent exactly when the string
\* has fewer than i components or its i-th component is empty, and is
\* otherwise present with that component's value; "" gives four absent
\* fields, "1.2" absent build and private, "1..3" absent minor and build 3.
C6_FieldsFollowComponents ==
    /\ (pc # "from_str" /\ Unwrap(parsed).ok) =>
         LET v == Unwrap(parsed).val
             parts == Split(input)
         IN \A i \in 1..4 :
               /\ IsNone(FieldsOf(v)[i]) <=>
                     (Len(parts) < i \/ parts[i] = <<>>)
               /\ IsSome(FieldsOf(v)[i]) =>
                     Unwrap(FieldsOf(v)[i]) = ValueOf(Unsigned(parts[i]))
    /\ from_str(<<>>) = Ok(new(None, None, None, None))
    /\ from_str(<<"1", ".">>) = Ok(new(Some(U32(1)), None, None, None))
    /\ from_str(<<"1", ".", "2">>)
          = Ok(new(Some(U32(1)), Some(U32(2)), None, None))
    /\ from_str(<<"1", ".", ".", "3">>)
          = Ok(new(Some(U32(1)), None, Some(U32(3)), None))

\* An interior empty component followed by a number
C6_Witness ==
    /\ pc = "done" /\ Unwrap(parsed).ok
    /\ Len(Split(input)) = 3
    /\ Split(input)[2] = <<>> /\ Split(input)[3] = <<"0", "0", "7">>
    /\ Unwrap(parsed).val.minor = None
    /\ Unwrap(parsed).val.build = Some(U32(7))
    /\ Unwrap(parsed).val.private = None

\* C7: format(v) is the four decimal numbers major.minor.build.private
\* joined by dots with every absent field rendered as 0: always exactly four
\* components; the version parsed from "1.2" formats as "1.2.0.0"; a version
\* and its absent-replaced-by-0 counterpart format to the same string.
C7_FormatFourFields ==
    /\ (pc = "done" /\ IsSome(text)) =>
         LET v == Unwrap(parsed).val
             comps == Split(Unwrap(text))
         IN /\ Len(comps) = 4
            /\ \A i \in 1..4 :
                  /\ IsCanonical(comps[i])
                  /\ ValueOf(comps[i]) = OrZero(FieldsOf(v)[i])
            /\ Unwrap(text) = fmt(ZeroFilled(v))
    /\ fmt(from_str(<<"1", ".", "2">>).val)
          = <<"1", ".", "2", ".", "0", ".", "0">>

\* A version with absent minor and private, formatted
C7_Witness ==
    /\ pc = "done" /\ IsSome(text)
    /\ Unwrap(parsed).val.minor = None /\ Unwrap(parsed).val.private = None
    /\ Unwrap(parsed).val.build = Some(U32Max)
    /\ Split(Unwrap(text))[2] = <<"0">>
    /\ Split(Unwrap(text))[3] = U32MaxDigits

----------------------------------------------------------------------------
(* SpecFilter: filter_by_version applied to a list of files and two bounds *)

PathNames == {1, 2}
FileVersions == {None, Some(V4(1, 0, 0, 0)), Some(V4(2, 0, 0, 0)),
                 Some(V4(3, 0, 0, 0))}
FileInfos == {FileInfo(p, v) : p \in PathNames, v \in FileVersions}
FileLists == UNION {[1..n -> FileInfos] : n \in 0..MaxFiles}
MinBounds == {None, Some(V4(2, 0, 0, 0)), Some(V4(1, 5, 0, 0)),
              Some(from_str(<<"2">>).val)}
MaxBounds == {None, Some(V4(2, 0, 0, 0)), Some(V4(2, 5, 0, 0)),
              Some(from_str(<<"2">>).val)}

InitFilter ==
    /\ pc = "filter_by_version"
    /\ flt_files \in FileLists
    /\ min_bound \in MinBounds /\ max_bound \in MaxBounds
    /\ filtered = None
    /\ VersionIdle /\ ParseIdle /\ MainIdle /\ ReadIdle /\ SortIdle

FilterCall ==
    /\ pc = "filter_by_version"
    /\ filtered' = Some(filter_by_version(flt_files, min_bound, max_bound))
    /\ pc' = "done"
    /\ UNCHANGED <<flt_files, min_bound, max_bound, versionVars, parseVars,
                   mainVars, readVars, sortVars>>

NextFilter == FilterCall

SpecFilter == InitFilter /\ [][NextFilter]_vars

----------------------------------------------------------------------------
(* Properties of filtering (SpecFilter) *)

\* The k-th smallest element of a set of indices
Nth(Q, k) == CHOOSE i \in Q : Cardinality({j \in Q : j <= i}) = k

InRange(f, minv, maxv) ==
    /\ IsSome(f.version)
    /\ IsSome(minv) => le(Unwrap(minv), Unwrap(f.version))
    /\ IsSome(maxv) => le(Unwrap(f.version), Unwrap(maxv))

TestFiles == <<FileInfo(1, Some(V4(1, 0, 0, 0))), FileInfo(2, Some(V4(2, 0, 0, 0))),
               FileInfo(3, Some(V4(3, 0, 0, 0))), FileInfo(4, None)>>

\* C8: filter_by_version(files, min, max) returns exactly the input files
\* that have a version v with min <= v (when min is given) and v <= max (when
\* max is given), bounds inclusive, in input order; a file without a version
\* is never in the result; {1.0.0.0, 2.0.0.0, 3.0.0.0, none} with min 2.0.0.0
\* yields exactly {2.0.0.0, 3.0.0.0}.
C8_FilterKeepsExactlyInRange ==
    /\ pc = "done" =>
         LET res == Unwrap(filtered)
             Q == {i \in 1..Len(flt_files) :
                      InRange(flt_files[i], min_bound, max_bound)}
         IN /\ Len(res) = Cardinality(Q)
            /\ \A k \in 1..Len(res) : res[k] = flt_files[Nth(Q, k)]
            /\ \A k \in 1..Len(res) : IsSome(res[k].version)
    /\ filter_by_version(TestFiles, Some(V4(2, 0, 0, 0)), None)
          = <<TestFiles[2], TestFiles[3]>>
    /\ filter_by_version(TestFiles, None, Some(V4(2, 0, 0, 0)))
          = <<TestFiles[1], TestFiles[2]>>
    /\ filter_by_version(TestFiles, Some(V4(1, 5, 0, 0)), Some(V4(2, 5, 0, 0)))
          = <<TestFiles[2]>>

\* Both bounds given: a file exactly on the minimum is kept, one above the
\* maximum and one without a version are dropped
C8_Witness ==
    /\ pc = "done"
    /\ min_bound = Some(V4(2, 0, 0, 0)) /\ max_bound = Some(V4(2, 5, 0, 0))
    /\ flt_files = <<FileInfo(2, Some(V4(3, 0, 0, 0))), FileInfo(1, None),
                     FileInfo(1, Some(V4(2, 0, 0, 0)))>>
    /\ filtered = Some(<<FileInfo(1, Some(V4(2, 0, 0, 0)))>>)

----------------------------------------------------------------------------
(* Spec: a run of main *)

VersionArgs == {None, Some(<<"a", "b", "c">>),
                Some(<<"2", ".", "0", ".", "0", ".", "0">>), Some(<<"2">>)}
MinArgs == VersionArgs \ {Some(<<"2">>)}
MaxArgs == VersionArgs \ {Some(<<"2", ".", "0", ".", "0", ".", "0">>)}
Patterns == {"*", "[invalid"}

CliArgs ==
    [pattern : Patterns, include_file_version : BOOLEAN,
     sort_by_path : BOOLEAN, min_version : MinArgs, max_version : MaxArgs,
     output_file : {None, Some("out.txt")}, quiet : BOOLEAN]

\* Directory trees: at most MaxTree files with distinct paths, in the order
\* the walk yields them, each with the version its bytes yield
TreeVersions == {None, Some(V4(1, 0, 0, 0)), Some(V4(2, 0, 0, 0))}
Trees ==
    {t \in UNION {[1..n -> [path : 1..MaxTree, version : TreeVersions]] :
                     n \in 0..MaxTree} :
        \A i, j \in 1..Len(t) : t[i].path = t[j].path => i = j}

ExpectedFormat == "major.minor.build.private"

\* anyhow!("Invalid ... version '{}': {}. Expected format:
\*          major.minor.build.private (e.g., 1.2.3.4)", s, e)
VersionError(what, s, e) ==
    [what |-> what, input |-> s, cause |-> e, expected |-> ExpectedFormat]
OtherError(what, e) ==
    [what |-> what, input |-> <<>>, cause |-> e, expected |-> ""]

\* Pattern::new(pattern): only a malformed pattern is an error
PatternIsValid(pattern) == pattern # "[invalid"

\* enumerate_files: the paths of the tree in walk order
enumerate_files(tree, pattern) ==
    IF PatternIsValid(pattern)
    THEN Ok([i \in 1..Len(tree) |-> tree[i].path])
    ELSE Err("PatternError")

Init ==
    /\ pc = "normalize"
    /\ args \in CliArgs
    /\ fs \in Trees
    /\ files = <<>>
    /\ min_version = None /\ max_version = None
    /\ file_infos = <<>> /\ stdout = <<>> /\ out_file = None
    /\ scanned = FALSE /\ exit = None /\ reads = <<>>
    /\ VersionIdle /\ ParseIdle /\ FilterIdle /\ ReadIdle /\ SortIdle

pureVars == <<versionVars, parseVars, filterVars, readVars, sortVars>>

Normalize ==
    /\ pc = "normalize"
    /\ args' = normalize(args)
    /\ pc' = "parse_min"
    /\ UNCHANGED <<fs, files, min_version, max_version, file_infos, stdout,
                   out_file, scanned, exit, pureVars, reads>>

ParseMinVersion ==
    /\ pc = "parse_min"
    /\ LET r == IF IsSome(args.min_version)
                THEN from_str(Unwrap(args.min_version))
                ELSE Ok(new(None, None, None, None))
       IN IF r.ok
          THEN /\ min_version' = IF IsSome(args.min_version)
                                 THEN Some(r.val) ELSE None
               /\ pc' = "parse_max"
               /\ exit' = exit
          ELSE /\ min_version' = min_version
               /\ pc' = "exited"
               /\ exit' = Some(Err(VersionError("Invalid minimum version",
                                       Unwrap(args.min_version), r.err)))
    /\ UNCHANGED <<args, fs, files, max_version, file_infos, stdout,
                   out_file, scanned, pureVars, reads>>

ParseMaxVersion_ignore_error ==
    /\ pc = "parse_max"
    /\ LET r == IF IsSome(args.max_version)
                THEN from_str(Unwrap(args.max_version))
                ELSE Ok(new(None, None, None, None))
       IN /\ max_version' = IF IsSome(args.max_version) /\ r.ok
                            THEN Some(r.val) ELSE None
          /\ pc' = "header"
          /\ exit' = exit
    /\ UNCHANGED <<args, fs, files, min_version, file_infos, stdout,
                   out_file, scanned, pureVars, reads>>

ParseMaxVersion ==
    /\ pc = "parse_max"
    /\ LET r == IF IsSome(args.max_version)
                THEN from_str(Unwrap(args.max_version))
                ELSE Ok(new(None, None, None, None))
       IN IF r.ok
          THEN /\ max_version' = IF IsSome(args.max_version)
                                 THEN Some(r.val) ELSE None
               /\ pc' = "header"
               /\ exit' = exit
          ELSE /\ max_version' = max_version
               /\ pc' = "exited"
               /\ exit' = Some(Err(VersionError("Invalid maximum version",
                                       Unwrap(args.max_version), r.err)))
    /\ UNCHANGED <<args, fs, files, min_version, file_infos, stdout,
                   out_file, scanned, pureVars, reads>>

PrintHeader_ignores_quiet ==
    /\ pc = "header"
    /\ stdout' = stdout \o <<TextLine("List files in directory and its subdirectories."),
                             TextLine("Use flist --help to print help."),
                             TextLine("")>>
    /\ pc' = "enumerate"
    /\ UNCHANGED <<args, fs, files, min_version, max_version, file_infos,
                   out_file, scanned, exit, pureVars, reads>>

PrintHeader ==
    /\ pc = "header"
    /\ stdout' = IF ~args.quiet
                 THEN stdout \o <<TextLine("List files in directory and its subdirectories."),
                                  TextLine("Use flist --help to print help."),
                                  TextLine("")>>
                 ELSE stdout
    /\ pc' = "enumerate"
    /\ UNCHANGED <<args, fs, files, min_version, max_version, file_infos,
                   out_file, scanned, exit, pureVars, reads>>

Enumerate ==
    /\ pc = "enumerate"
    /\ scanned' = TRUE
    /\ LET r == enumerate_files(fs, args.pattern)
       IN IF r.ok
          THEN /\ files' = r.val
               /\ pc' = "collect"
               /\ exit' = exit
          ELSE /\ files' = files
               /\ pc' = "exited"
               /\ exit' = Some(Err(OtherError("Failed to enumerate files",
                                              r.err)))
    /\ UNCHANGED <<args, fs, min_version, max_version, file_infos, stdout,
                   out_file, pureVars, reads>>

Collect ==
    /\ pc = "collect"
    /\ file_infos' = collect_file_info(fs, files, args.include_file_version)
    /\ reads' = reads \o collect_reads(files, args.include_file_version)
    /\ pc' = "filter"
    /\ UNCHANGED <<args, fs, files, min_version, max_version, stdout,
                   out_file, scanned, exit, pureVars>>

Filter ==
    /\ pc = "filter"
    /\ file_infos' = IF IsSome(min_version) \/ IsSome(max_version)
                     THEN filter_by_version(file_infos, min_version,
                                            max_version)
                     ELSE file_infos
    /\ pc' = "sort"
    /\ UNCHANGED <<args, fs, files, min_version, max_version, stdout,
                   out_file, scanned, exit, pureVars, reads>>

Sort_ignores_flag ==
    /\ pc = "sort"
    /\ file_infos' = sort_by_path(file_infos)
    /\ pc' = "print"
    /\ UNCHANGED <<args, fs, files, min_version, max_version, stdout,
                   out_file, scanned, exit, pureVars, reads>>

Sort ==
    /\ pc = "sort"
    /\ file_infos' = IF args.sort_by_path THEN sort_by_path(file_infos)
                     ELSE file_infos
    /\ pc' = "print"
    /\ UNCHANGED <<args, fs, files, min_version, max_version, stdout,
                   out_file, scanned, exit, pureVars, reads>>

PrintResults ==
    /\ pc = "print"
    /\ stdout' = stdout \o print_results(file_infos,
                                         args.include_file_version, args.quiet)
    /\ pc' = "write"
    /\ UNCHANGED <<args, fs, files, min_version, max_version, file_infos,
                   out_file, scanned, exit, pureVars, reads>>

\* write_to_file when an output file is named; creating the file may fail
WriteToFile ==
    /\ pc = "write"
    /\ \E created \in BOOLEAN :
          IF IsSome(args.output_file) /\ created
          THEN /\ out_file' = Some(write_to_file(file_infos,
                                       args.include_file_version))
               /\ exit' = Some(Ok("unit"))
          ELSE IF IsSome(args.output_file)
          THEN /\ out_file' = out_file
               /\ exit' = Some(Err(OtherError(
                               "Failed to write to output file", "io")))
          ELSE /\ out_file' = out_file
               /\ exit' = Some(Ok("unit"))
    /\ pc' = "exited"
    /\ UNCHANGED <<args, fs, files, min_version, max_version, file_infos,
                   stdout, scanned, pureVars, reads>>

Next ==
    \/ Normalize
    \/ ParseMinVersion
    \/ ParseMaxVersion
    \/ PrintHeader
    \/ Enumerate
    \/ Collect
    \/ Filter
    \/ Sort
    \/ PrintResults
    \/ WriteToFile

Spec == Init /\ [][Next]_vars

----------------------------------------------------------------------------
(* Properties of a run (Spec) *)

BadArg(a) == IsSome(a) /\ ~from_str(Unwrap(a)).ok

\* The first version argument that does not parse: --minv before --maxv
Offending == IF BadArg(args.min_version) THEN args.min_version
             ELSE args.max_version

\* C9: if the --minv or the --maxv string does not parse as a version, the
\* run ends with an error before enumerate_files is called and before
\* anything is printed or written to the output file; the error message holds
\* the offending input string and the expected pattern
\* "major.minor.build.private".
C9_BadFilterStopsBeforeScan ==
    (BadArg(args.min_version) \/ BadArg(args.max_version)) =>
        /\ pc \in {"normalize", "parse_min", "parse_max", "exited"}
        /\ ~scanned /\ files = <<>>
        /\ stdout = <<>> /\ out_file = None
        /\ pc = "exited" =>
              /\ IsSome(exit) /\ ~Unwrap(exit).ok
              /\ Unwrap(exit).err.input = Unwrap(Offending)
              /\ Unwrap(exit).err.expected = "major.minor.build.private"
        /\ pc # "exited" => exit = None

\* A good --minv and a bad --maxv, a tree with files, the run ended
C9_Witness ==
    /\ pc = "exited"
    /\ args.min_version = Some(<<"2", ".", "0", ".", "0", ".", "0">>)
    /\ args.max_version = Some(<<"a", "b", "c">>)
    /\ ~args.quiet /\ IsSome(args.output_file) /\ Len(fs) > 0
    /\ IsSome(min_version)
    /\ ~Unwrap(exit).ok /\ Unwrap(exit).err.input = <<"a", "b", "c">>
    /\ stdout = <<>> /\ ~scanned

FileLinesOf(lines) == {j \in 1..Len(lines) : lines[j].kind = "file"}
BlankField == [i \in 1..15 |-> " "]
NoFilter == IsNone(args.min_version) /\ IsNone(args.max_version)

\* print_results has run: the run passed it, or ended after a scan that
\* found the pattern valid
Printed == \/ pc = "write"
           \/ pc = "exited" /\ scanned /\ PatternIsValid(args.pattern)

\* Every file of the tree has a line among lines; with versions shown a
\* file without a version has a blank version field
AllListed(lines) ==
    \A i \in 1..Len(fs) :
        \E j \in FileLinesOf(lines) :
            /\ lines[j].path = fs[i].path
            /\ (args.include_file_version /\ IsNone(fs[i].version)) =>
                  lines[j].field = Some(BlankField)

\* No file of the tree without a version has a line among lines
NoVersionlessListed(lines) ==
    \A j \in FileLinesOf(lines) :
        \A i \in 1..Len(fs) :
            fs[i].path = lines[j].path => IsSome(fs[i].version)

\* C10: in a run with no --minv and no --maxv every enumerated file appears
\* in the output, and with version display on a file with no extractable
\* version is listed with a blank version field; in a run with --minv or
\* --maxv no file without an extractable version appears in the output.
C10_VersionlessListedUnlessFiltered ==
    /\ (NoFilter /\ Printed) =>
          /\ AllListed(stdout)
          /\ IsSome(out_file) => AllListed(Unwrap(out_file))
    /\ ~NoFilter =>
          /\ NoVersionlessListed(stdout)
          /\ IsSome(out_file) => NoVersionlessListed(Unwrap(out_file))

\* A run without bounds that shows versions, over a tree whose first file
\* has no version and whose second has one
C10_Witness ==
    /\ pc = "exited" /\ NoFilter /\ args.include_file_version
    /\ Len(fs) = 2 /\ IsNone(fs[1].version) /\ IsSome(fs[2].version)
    /\ Cardinality(FileLinesOf(stdout)) = 2
    /\ \E j \in FileLinesOf(stdout) :
          stdout[j].path = fs[1].path /\ stdout[j].field = Some(BlankField)
    /\ IsSome(out_file) /\ Len(Unwrap(out_file)) = 2

-----------------------------------------------------------------------------
(* C18: components past the fourth *)

\* The first four components of a version string, joined again with dots
FirstFour(s) == Join(SubSeq(Split(s), 1, 4))

\* C18: for a version string with more than four components, from_str returns
\* exactly what it returns for the first four components alone: the same
\* version on success, the same error on failure.  The later components are
\* never looked at, so one that is not a number causes no error.
C18_LaterComponentsIgnored ==
    (pc # "from_str" /\ Len(Split(input)) > 4)
        => Unwrap(parsed) = from_str(FirstFour(input))

\* A string whose fifth component is not a number has been parsed
\* successfully.
C18_Witness ==
    /\ pc # "from_str"
    /\ Len(Split(input)) > 4
    /\ Split(input)[5] = <<"x">>
    /\ Unwrap(parsed).ok
    /\ Unwrap(parsed).val = from_str(FirstFour(input)).val

-----------------------------------------------------------------------------
(* C19: the ordering of versions is a total order that agrees with == *)

\* Ordering::reverse, as the claim uses it
ReverseOrdering(o) ==
    CASE o = "Less" -> "Greater"
      [] o = "Greater" -> "Less"
      [] OTHER -> "Equal"

\* C19: for all versions a, b and c, fields absent or present: cmp(a, b) is
\* Equal exactly when a == b; cmp(b, a) is the reverse of cmp(a, b); and
\* a <= b together with b <= c implies a <= c.
C19_TotalOrderAgreesWithEq ==
    pc = "done" =>
        /\ Unwrap(ord_res) \in {"Less", "Equal", "Greater"}
        /\ (Unwrap(ord_res) = "Equal") <=> Unwrap(eq_res)
        /\ cmp(rhs, lhs) = ReverseOrdering(Unwrap(ord_res))
        /\ Unwrap(ord_res) # "Greater" =>
              \A c \in Versions : le(rhs, c) => le(lhs, c)

\* Two versions that differ only in an absent field against a present 0 have
\* been compared both ways: they are unequal and strictly ordered.
C19_Witness ==
    /\ pc = "done"
    /\ lhs = new(Some(U32(1)), None, None, None)
    /\ rhs = new(Some(U32(1)), Some(U32(0)), None, None)
    /\ ord_res = Some("Less")
    /\ eq_res = Some(FALSE)
    /\ cmp(rhs, lhs) = "Greater"

-----------------------------------------------------------------------------
(* C17: filtering with a partial version as a bound (SpecFilter) *)

\* A filter bound with its absent fields written as 0
ZeroFilledBound(b) == IF IsSome(b) THEN Some(ZeroFilled(Unwrap(b))) ELSE None

\* C17: with a bound that is a partial version ("2", "1.2", the empty string)
\* filter_by_version keeps exactly the files it keeps for that bound with the
\* absent fields written as 0 (2.0.0.0, 1.2.0.0, 0.0.0.0); a file whose
\* version is 2.0.0.0 is kept by the inclusive maximum bound parsed from "2".
C17_PartialBoundAsZeroFilled ==
    /\ pc = "done" =>
          Unwrap(filtered) = filter_by_version(flt_files,
                                               ZeroFilledBound(min_bound),
                                               ZeroFilledBound(max_bound))
    /\ filter_by_version(<<FileInfo(1, Some(V4(2, 0, 0, 0)))>>, None,
                         Some(from_str(<<"2">>).val))
          = <<FileInfo(1, Some(V4(2, 0, 0, 0)))>>

-----------------------------------------------------------------------------
(* C14: a version filter turns version extraction on (Spec) *)

\* The step of main that normalizes the arguments: include_file_version
\* becomes true when a bound is given and keeps its value otherwise, no other
\* argument changes, normalizing again changes nothing, and no version string
\* has been parsed and nothing scanned or printed before it.
NormalizeStepIsRight ==
    (pc = "normalize" /\ pc' # "normalize") =>
        /\ args'.include_file_version =
              (\/ args.include_file_version
               \/ IsSome(args.min_version)
               \/ IsSome(args.max_version))
        /\ \A f \in DOMAIN args \ {"include_file_version"} : args'[f] = args[f]
        /\ normalize(args') = args'
        /\ min_version = None /\ max_version = None
        /\ exit = None /\ ~scanned /\ stdout = <<>>

\* From the parsing of the bounds on, a given bound means that extraction is
\* on; when the files are filtered, a version has been read for each of them.
FilterImpliesExtraction ==
    /\ pc # "normalize" =>
          ((IsSome(args.min_version) \/ IsSome(args.max_version))
              => args.include_file_version)
    /\ (IsSome(min_version) \/ IsSome(max_version)) =>
          /\ IsSome(min_version) => IsSome(args.min_version)
          /\ IsSome(max_version) => IsSome(args.max_version)
          /\ args.include_file_version
          /\ pc \in {"filter", "sort", "print", "write"} => reads = files

\* C14: after CliArgs::normalize include_file_version is true whenever
\* min_version or max_version is given and otherwise keeps its value; no other
\* argument changes; normalize is idempotent; main normalizes before it
\* parses a version string, so filtering by version never runs with
\* extraction off.
C14_FilterTurnsExtractionOn ==
    [][NormalizeStepIsRight]_vars /\ []FilterImpliesExtraction

\* Only a maximum bound was given; the files were read for their versions and
\* the list is about to be filtered.
C14_Witness ==
    /\ pc = "filter"
    /\ IsNone(args.min_version) /\ IsSome(max_version)
    /\ args.include_file_version
    /\ Len(files) = MaxTree
    /\ reads = files

-----------------------------------------------------------------------------
(* C13: collecting file information (Spec) *)

\* C13: collect_file_info returns exactly one FileInfo per input path, in
\* input order, with the path unchanged; each file's version is what the
\* extraction from that file itself yields, None when it fails or finds no
\* version, whatever the other files yield; with include_version false every
\* version is None and no file is read.
C13_OneInfoPerPath ==
    pc = "filter" =>
        /\ Len(file_infos) = Len(files)
        /\ Len(files) = Len(fs)
        /\ \A i \in 1..Len(files) :
              /\ file_infos[i].path = files[i]
              /\ files[i] = fs[i].path
              /\ file_infos[i].version =
                    IF args.include_file_version THEN fs[i].version ELSE None
        /\ reads = IF args.include_file_version THEN files ELSE <<>>

\* The first file yields no version, the second one does; both are listed.
C13_Witness ==
    /\ pc = "filter"
    /\ args.include_file_version
    /\ Len(files) >= 2
    /\ IsNone(fs[1].version) /\ IsSome(fs[2].version)
    /\ IsNone(file_infos[1].version)
    /\ file_infos[2] = FileInfo(fs[2].path, fs[2].version)

-----------------------------------------------------------------------------
(* C16: what a successful run prints (Spec) *)

Succeeded == pc = "exited" /\ exit = Some(Ok("unit"))
FoundLinesOf(lines) ==
    {j \in 1..Len(lines) : lines[j].kind = "Found N files."}

\* C16: in quiet mode the console output of a successful run is exactly one
\* line per listed file and nothing else, no header and no "Found N files.";
\* otherwise the summary is printed once before and once after the list, and
\* its N is both times the number of result lines printed.
C16_QuietPrintsOnlyFiles ==
    Succeeded =>
        LET F == FileLinesOf(stdout)
            S == FoundLinesOf(stdout)
        IN /\ Cardinality(F) = Len(file_infos)
           /\ \A k \in 1..Len(file_infos) :
                 stdout[Nth(F, k)] =
                     ResultLine(file_infos[k], args.include_file_version)
           /\ args.quiet => F = 1..Len(stdout)
           /\ ~args.quiet =>
                 /\ Cardinality(S) = 2
                 /\ \A j \in S : stdout[j].n = Cardinality(F)
                 /\ \A j \in F : Nth(S, 1) < j /\ j < Nth(S, 2)
                 /\ Nth(S, 2) = Len(stdout)

\* A run that is not quiet dropped a file by its version and listed another:
\* the N of both summaries is the number listed, not the number scanned.
C16_Witness ==
    /\ Succeeded
    /\ ~args.quiet
    /\ Len(file_infos) >= 1 /\ Len(file_infos) < Len(files)
    /\ Cardinality(FoundLinesOf(stdout)) = 2
    /\ \A j \in FoundLinesOf(stdout) : stdout[j].n = Len(file_infos)

-----------------------------------------------------------------------------
(* SpecSort: sort_by_path applied to a list of files, and the runs of main *)

InitSort ==
    /\ pc = "sort_by_path"
    /\ srt_files \in FileLists
    /\ srt_result = None
    /\ VersionIdle /\ ParseIdle /\ FilterIdle /\ MainIdle /\ ReadIdle

SortCall ==
    /\ pc = "sort_by_path"
    /\ srt_result' = Some(sort_by_path(srt_files))
    /\ pc' = "sorted"
    /\ UNCHANGED <<srt_files, versionVars, parseVars, filterVars, mainVars,
                   readVars>>

NextSort ==
    \/ SortCall
    \/ Normalize
    \/ ParseMinVersion
    \/ ParseMaxVersion
    \/ PrintHeader
    \/ Enumerate
    \/ Collect
    \/ Filter
    \/ Sort
    \/ PrintResults
    \/ WriteToFile

SpecSort == (InitSort \/ Init) /\ [][NextSort]_vars

-----------------------------------------------------------------------------
(* C15: sorting by path (SpecSort) *)

\* The place of the i-th file of fl in the stable ascending order: the files
\* with a smaller path, and those with the same path that come no later
PlaceOf(fl, i) ==
    Cardinality({j \in 1..Len(fl) :
                    \/ fl[j].path < fl[i].path
                    \/ fl[j].path = fl[i].path /\ j <= i})

PathsOf(fl) == [i \in 1..Len(fl) |-> fl[i].path]
Ascending(ps) == \A i, j \in 1..Len(ps) : i < j => ps[i] <= ps[j]
\* ps lists, in the order of qs, some of the members of qs
InOrderOf(ps, qs) ==
    \A i, j \in 1..Len(ps) :
        i < j => \E k, l \in 1..Len(qs) :
                    k < l /\ qs[k] = ps[i] /\ qs[l] = ps[j]

\* C15: sort_by_path returns a permutation of its input, every file with its
\* own version, in ascending path order, files of equal path in input order;
\* main sorts the list only when the sort flag is set, and otherwise the list
\* it prints keeps the order of the enumeration.
C15_StableSortOnlyWhenAsked ==
    /\ pc = "sorted" =>
          LET res == Unwrap(srt_result)
          IN /\ Len(res) = Len(srt_files)
             /\ \A i \in 1..Len(srt_files) :
                   res[PlaceOf(srt_files, i)] = srt_files[i]
             /\ Ascending(PathsOf(res))
    /\ pc \in {"print", "write"} =>
          IF args.sort_by_path
          THEN Ascending(PathsOf(file_infos))
          ELSE InOrderOf(PathsOf(file_infos), files)

\* Three files out of order, two of them with the same path: the sorted list
\* has the two in their input order, before the file of the larger path.
C15_Witness ==
    /\ pc = "sorted"
    /\ srt_files = <<FileInfo(2, Some(V4(1, 0, 0, 0))),
                     FileInfo(1, Some(V4(2, 0, 0, 0))), FileInfo(1, None)>>
    /\ srt_result = Some(<<FileInfo(1, Some(V4(2, 0, 0, 0))),
                           FileInfo(1, None),
                           FileInfo(2, Some(V4(1, 0, 0, 0)))>>)

-----------------------------------------------------------------------------
(* version_reader: read_file_version and the extraction from a PE image *)

\* u64 values are held as four 16-bit words, least significant first
U64Words == 4

\* x >> n for n a multiple of 16, and x & 0xFFFF, on u64 values
Shr_one_word(x, n) ==
    [k \in 1..U64Words |-> IF k + 1 <= U64Words THEN x[k + 1] ELSE 0]

Shr(x, n) ==
    [k \in 1..U64Words |->
        IF k + (n \div 16) <= U64Words THEN x[k + (n \div 16)] ELSE 0]
AndFFFF(x) == [k \in 1..U64Words |-> IF k = 1 THEN x[k] ELSE 0]

\* (x as u32): the low 32 bits
AsU32(x) == [hi |-> x[2], lo |-> x[1]]

\* std::mem::transmute::<VS_VERSION, u64>(v): the eight bytes that v occupies
\* in memory read as one integer in the byte order of the host.  bytes[1] is
\* the byte at the lowest address.
transmute(bytes, byte_order) ==
    IF byte_order = "little"
    THEN [k \in 1..U64Words |-> bytes[2 * k - 1] + 256 * bytes[2 * k]]
    ELSE [k \in 1..U64Words |-> bytes[10 - 2 * k] + 256 * bytes[9 - 2 * k]]

\* let file_ver_raw = unsafe { transmute(fixed.dwFileVersion) }, when the
\* extraction gets that far
FileVerRaw(pe, byte_order) ==
    IF pe.resources = "Ok" /\ pe.version_info = "Ok" /\ IsSome(pe.fixed)
    THEN Some(transmute(Unwrap(pe.fixed), byte_order))
    ELSE None

\* extract_version_from_pe64_cross (extract_version_from_pe64 on Windows)
extract_version_from_pe64_cross(pe, byte_order) ==
    IF pe.resources # "Ok" THEN Ok(None)
    ELSE IF pe.version_info = "NotFound" THEN Ok(None)
    ELSE IF pe.version_info # "Ok" THEN Ok(None)
    ELSE IF IsNone(pe.fixed) THEN Ok(None)
    ELSE LET raw == transmute(Unwrap(pe.fixed), byte_order)
             minor == AsU32(AndFFFF(raw))
             major == AsU32(AndFFFF(Shr(raw, 16)))
             private == AsU32(AndFFFF(Shr(raw, 32)))
             build == AsU32(AndFFFF(Shr(raw, 48)))
         IN Ok(Some(new(Some(major), Some(minor), Some(build),
                        Some(private))))

\* extract_version_from_pe32_cross (extract_version_from_pe32 on Windows)
extract_version_from_pe32_cross(pe, byte_order) ==
    IF pe.resources # "Ok" THEN Ok(None)
    ELSE IF pe.version_info = "NotFound" THEN Ok(None)
    ELSE IF pe.version_info # "Ok" THEN Ok(None)
    ELSE IF IsNone(pe.fixed) THEN Ok(None)
    ELSE LET raw == transmute(Unwrap(pe.fixed), byte_order)
             minor == AsU32(AndFFFF(raw))
             major == AsU32(AndFFFF(Shr(raw, 16)))
             private == AsU32(AndFFFF(Shr(raw, 32)))
             build == AsU32(AndFFFF(Shr(raw, 48)))
         IN Ok(Some(new(Some(major), Some(minor), Some(build),
                        Some(private))))

-----------------------------------------------------------------------------
(* SpecRead: read_file_version applied to one file *)

\* The bytes a fixed-info block holds for dwFileVersionMS and dwFileVersionLS
ByteValues == {0, 1, 255}
FileVersionBytes == [1..8 -> ByteValues]

\* What the resources of an image yield: pe.resources(),
\* resources.version_info() and version_info.fixed()
ResourceOutcomes ==
    {[resources |-> "Err", version_info |-> "NotFound", fixed |-> None],
     [resources |-> "Ok", version_info |-> "NotFound", fixed |-> None],
     [resources |-> "Ok", version_info |-> "Err", fixed |-> None],
     [resources |-> "Ok", version_info |-> "Ok", fixed |-> None]}
    \cup {[resources |-> "Ok", version_info |-> "Ok", fixed |-> Some(b)] :
             b \in FileVersionBytes}

\* A file: whether FileMap::open succeeds, whether its bytes pass
\* PeFile::from_bytes of pe64 and of pe32, and what its resources yield
Unreadable ==
    [open |-> FALSE, pe64 |-> FALSE, pe32 |-> FALSE, resources |-> "Err",
     version_info |-> "NotFound", fixed |-> None]
Images ==
    {Unreadable}
    \cup {[open |-> TRUE, pe64 |-> a, pe32 |-> b, resources |-> r.resources,
           version_info |-> r.version_info, fixed |-> r.fixed] :
             a \in BOOLEAN, b \in BOOLEAN, r \in ResourceOutcomes}

ByteOrders == {"little", "big"}

InitRead ==
    /\ pc = "open"
    /\ image \in Images
    /\ host \in ByteOrders
    /\ tried = <<>> /\ file_ver_raw = None /\ read_res = None
    /\ VersionIdle /\ ParseIdle /\ FilterIdle /\ MainIdle /\ SortIdle

otherVars == <<versionVars, parseVars, filterVars, mainVars, sortVars>>

OpenFile_propagates_error ==
    /\ pc = "open"
    /\ IF image.open
       THEN pc' = "pe64" /\ read_res' = read_res
       ELSE pc' = "returned" /\ read_res' = Some(Err("io"))
    /\ UNCHANGED <<image, host, tried, file_ver_raw, otherVars>>

\* FileMap::open(path): Err(_) => return Ok(None)
OpenFile ==
    /\ pc = "open"
    /\ IF image.open
       THEN pc' = "pe64" /\ read_res' = read_res
       ELSE pc' = "returned" /\ read_res' = Some(Ok(None))
    /\ UNCHANGED <<image, host, tried, file_ver_raw, otherVars>>

TryPe64_falls_through ==
    /\ pc = "pe64"
    /\ tried' = Append(tried, "pe64")
    /\ IF /\ image.pe64
          /\ IsSome(extract_version_from_pe64_cross(image, host).val)
       THEN /\ read_res' = Some(extract_version_from_pe64_cross(image, host))
            /\ file_ver_raw' = FileVerRaw(image, host)
            /\ pc' = "returned"
       ELSE /\ read_res' = read_res
            /\ file_ver_raw' = file_ver_raw
            /\ pc' = "pe32"
    /\ UNCHANGED <<image, host, otherVars>>

\* if let Ok(pe) = PeFile::from_bytes(&file_map) { return extract...(pe) }
TryPe64 ==
    /\ pc = "pe64"
    /\ tried' = Append(tried, "pe64")
    /\ IF image.pe64
       THEN /\ read_res' = Some(extract_version_from_pe64_cross(image, host))
            /\ file_ver_raw' = FileVerRaw(image, host)
            /\ pc' = "returned"
       ELSE /\ read_res' = read_res
            /\ file_ver_raw' = file_ver_raw
            /\ pc' = "pe32"
    /\ UNCHANGED <<image, host, otherVars>>

\* if let Ok(pe) = PeFile32::from_bytes(&file_map) { return extract...(pe) }
\* and the final Ok(None)
TryPe32 ==
    /\ pc = "pe32"
    /\ tried' = Append(tried, "pe32")
    /\ IF image.pe32
       THEN /\ read_res' = Some(extract_version_from_pe32_cross(image, host))
            /\ file_ver_raw' = FileVerRaw(image, host)
       ELSE /\ read_res' = Some(Ok(None))
            /\ file_ver_raw' = file_ver_raw
    /\ pc' = "returned"
    /\ UNCHANGED <<image, host, otherVars>>

NextRead == OpenFile \/ TryPe64 \/ TryPe32

SpecRead == InitRead /\ [][NextRead]_vars

-----------------------------------------------------------------------------
(* C11: read_file_version never fails (SpecRead) *)

Returned == pc = "returned"
\* The image was accepted as a PE image, 64-bit or 32-bit
Accepted == image.open /\ (image.pe64 \/ image.pe32)
\* The causes for which no version is found
NoVersionCause ==
    \/ ~image.open
    \/ image.open /\ ~image.pe64 /\ ~image.pe32
    \/ Accepted /\ image.resources # "Ok"
    \/ Accepted /\ image.resources = "Ok" /\ image.version_info # "Ok"
    \/ Accepted /\ image.resources = "Ok" /\ image.version_info = "Ok"
          /\ IsNone(image.fixed)

-----------------------------------------------------------------------------
(* C12: the four fields of a raw file version (SpecRead) *)

\* The 16-bit word of the fixed-info bytes at bytes 2k-1 and 2k, read as the
\* format defines it (little-endian): the words of MS, then those of LS
FormatWord(bytes, k) == bytes[2 * k - 1] + 256 * bytes[2 * k]
IsWord(x) == x.hi = 0 /\ x.lo \in 0..(LimbBase - 1)
Decoded == Unwrap(Unwrap(read_res).val)

\* C12: for every raw file-version value w, the decoded version has all four
\* fields present, minor = bits 0-15 of w, major = bits 16-31, private =
\* bits 32-47 and build = bits 48-63, each in 0..65535.  On a little-endian
\* host w is MS + 2^32 * LS of the fixed-info block, so that minor and major
\* are the low and high word of MS, private and build those of LS.
C12_FieldsAreTheWordsOfRaw ==
    (Returned /\ IsSome(file_ver_raw)) =>
        LET w == Unwrap(file_ver_raw)
            v == Decoded
        IN /\ Unwrap(read_res).ok /\ IsSome(Unwrap(read_res).val)
           /\ AllPresent(v)
           /\ \A i \in 1..4 : IsWord(Unwrap(FieldsOf(v)[i]))
           /\ Unwrap(v.minor).lo = w[1]
           /\ Unwrap(v.major).lo = w[2]
           /\ Unwrap(v.private).lo = w[3]
           /\ Unwrap(v.build).lo = w[4]
           /\ host = "little" =>
                 \A k \in 1..4 : w[k] = FormatWord(Unwrap(image.fixed), k)

\* A raw value whose four words differ, one of them 65535, has been decoded
\* on a little-endian host: MS = 0x0001FFFF, LS = 0x01000100 is 1.65535.256.256
C12_Witness ==
    /\ Returned
    /\ host = "little"
    /\ image.fixed = Some(<<255, 255, 1, 0, 0, 1, 0, 1>>)
    /\ file_ver_raw = Some(<<65535, 1, 256, 256>>)
    /\ read_res = Some(Ok(Some(new(Some([hi |-> 0, lo |-> 1]),
                                   Some([hi |-> 0, lo |-> 65535]),
                                   Some([hi |-> 0, lo |-> 256]),
                                   Some([hi |-> 0, lo |-> 256])))))

-----------------------------------------------------------------------------
(* C20: decoding and the byte order of the host (SpecRead) *)

OtherByteOrder(b) == IF b = "little" THEN "big" ELSE "little"

\* The result of the extraction that returned, on a host of byte order b
ExtractionOn(b) ==
    IF tried = <<"pe64">>
    THEN extract_version_from_pe64_cross(image, b)
    ELSE extract_version_from_pe32_cross(image, b)

\* C20: each 16-bit field is taken by masking and shifting over the byte
\* layout the format defines (little-endian), not from the memory of a struct
\* reinterpreted as an integer, so that the same fixed-info bytes decode to
\* the same (major, minor, build, private) whatever the byte order of the
\* host.
C20_DecodingIgnoresHostByteOrder ==
    (Returned /\ IsSome(file_ver_raw)) =>
        /\ Unwrap(read_res) = ExtractionOn(OtherByteOrder(host))
        /\ Unwrap(Decoded.minor).lo = FormatWord(Unwrap(image.fixed), 1)
        /\ Unwrap(Decoded.major).lo = FormatWord(Unwrap(image.fixed), 2)
        /\ Unwrap(Decoded.private).lo = FormatWord(Unwrap(image.fixed), 3)
        /\ Unwrap(Decoded.build).lo = FormatWord(Unwrap(image.fixed), 4)

-----------------------------------------------------------------------------
(* C21: the 64-bit interpretation first, then the 32-bit one (SpecRead) *)

\* C21: read_file_version tries the image as 64-bit first and as 32-bit only
\* when the 64-bit interpretation is rejected; the outcome of the accepted
\* interpretation is final, so an accepted 64-bit image with no version
\* yields "no version" and the 32-bit path is not tried; and the two paths
\* decode the same resource outcome (no resources, no version info, no fixed
\* info, a raw file-version value) to the same result.
C21_Pe64FirstSameDecoding ==
    /\ Returned =>
          /\ tried = IF ~image.open THEN <<>>
                     ELSE IF image.pe64 THEN <<"pe64">>
                     ELSE <<"pe64", "pe32">>
          /\ (image.open /\ image.pe64) =>
                Unwrap(read_res) = extract_version_from_pe64_cross(image, host)
          /\ (image.open /\ ~image.pe64 /\ image.pe32) =>
                Unwrap(read_res) = extract_version_from_pe32_cross(image, host)
    /\ pc # "open" =>
          extract_version_from_pe64_cross(image, host)
              = extract_version_from_pe32_cross(image, host)

\* An image accepted as 64-bit, which the 32-bit reading would accept too,
\* whose resources hold no version info: the call returned "no version"
\* after trying the 64-bit interpretation alone.
C21_Witness ==
    /\ Returned
    /\ image.open /\ image.pe64 /\ image.pe32
    /\ image.resources = "Ok" /\ image.version_info = "NotFound"
    /\ tried = <<"pe64">>
    /\ read_res = Some(Ok(None))

====
